---- MODULE Spec2Model ----
(***************************************************************************)
(* Excel-data-dashboard: the upload pipeline of App (parse -> AI call ->   *)
(* publish), the Dashboard component (filteredData, the reset effect, the  *)
(* "Reset Filters" button) and the FilterPanel component (column           *)
(* classification, the active-filter mapping and the apply-filters         *)
(* effect), as a state machine over React commits.                         *)
(*                                                                         *)
(* A state is a committed render plus the passive effects that commit      *)
(* scheduled.  An event handler and the render it causes are one step; the *)
(* flush of the scheduled effects and the render their state updates cause *)
(* are one step (FlushEffects).                                            *)
(***************************************************************************)
EXTENDS Integers, Sequences, FiniteSets, TLC

(***************************************************************************)
(* JavaScript values.  A cell of a DataRow is string | number | boolean |  *)
(* null (types.ts:1); a key the parser did not emit is undefined.          *)
(***************************************************************************)
Str(s)    == [t |-> "string", s |-> s]
Num(n)    == [t |-> "number", n |-> n]
Bool(b)   == [t |-> "boolean", b |-> b]
JsNull    == [t |-> "null"]
Undefined == [t |-> "undefined"]

\* The number NaN and the two infinities, as used by the date comparison.
NaN         == 0 - 1
NegInfinity == 0 - 1000000
PosInfinity == 1000000

\* Null of a nullable React state (dataSet, analysis.config, analysis.error).
Null == [null |-> TRUE]

\* String(v) for the cell values of the datasets below.
NumberToString(n) ==
    CASE n = 5    -> "5"
      [] n = 7    -> "7"
      [] n = 2020 -> "2020"
      [] n = 2021 -> "2021"
      [] OTHER    -> ToString(n)

JsString(v) ==
    CASE v.t = "string"  -> v.s
      [] v.t = "number"  -> NumberToString(v.n)
      [] v.t = "boolean" -> IF v.b THEN "true" ELSE "false"
      [] v.t = "null"    -> "null"
      [] OTHER           -> "undefined"

\* s.length
StrLen(s) ==
    CASE s \in {"2023-01-01", "2023-03-15", "2023-06-30", "2023-07-01"} -> 10
      [] s \in {"East", "east", "free", "2020", "2021", "true", "null"} -> 4
      [] s \in {"pro", "n/a"} -> 3
      [] s = "+002020" -> 7
      [] s = "Europe" -> 6
      [] s \in {"5", "7"} -> 1
      [] s = "false" -> 5
      [] s = "undefined" -> 9
      [] OTHER -> 0

\* Date.parse(s) / new Date(s).getTime(), in hours since the epoch (the
\* millisecond value divided by 3600000); NaN for an invalid date.  A
\* date-only ISO string is midnight UTC; a bare year is 1 January of it.
DateParse(s) ==
    CASE s = "2023-01-01" -> 464592
      [] s = "2023-03-15" -> 466344
      [] s = "2023-06-30" -> 468912
      [] s = "2023-07-01" -> 468936
      [] s = "2020"       -> 438288
      [] s = "+002020"    -> 438288
      [] s = "2021"       -> 447072
      [] OTHER            -> NaN

\* Number(s) for a string s; NaN when s is not a numeric literal.
StringToNumber(s) ==
    CASE s = "5"    -> 5
      [] s = "7"    -> 7
      [] s = "2020" -> 2020
      [] s = "+002020" -> 2020
      [] s = "2021" -> 2021
      [] OTHER      -> NaN

IsNaN(x) == x = NaN

\* a.localeCompare(b): the rank of each string in the default collation
\* (symbols before digits before letters, lower case before upper case of
\* the same letter).
CollationRank(s) ==
    CASE s = "+002020"    -> 1
      [] s = "2020"       -> 2
      [] s = "2021"       -> 3
      [] s = "2023-01-01" -> 4
      [] s = "2023-03-15" -> 5
      [] s = "2023-06-30" -> 6
      [] s = "2023-07-01" -> 7
      [] s = "5"          -> 8
      [] s = "7"          -> 9
      [] s = "east"       -> 10
      [] s = "East"       -> 11
      [] s = "Europe"     -> 12
      [] s = "false"      -> 13
      [] s = "free"       -> 14
      [] s = "n/a"        -> 15
      [] s = "pro"        -> 16
      [] s = "true"       -> 17
      [] OTHER           -> 18

LocaleCompare(a, b) ==
    IF CollationRank(a) < CollationRank(b) THEN 0 - 1
    ELSE IF CollationRank(a) > CollationRank(b) THEN 1 ELSE 0


(***************************************************************************)
(* The datasets a parsed file can hold.  A dataset is an array of rows;    *)
(* a row is a record from column name to cell, without the keys the        *)
(* parser left out.  keys is Object.keys(data[0]), in order.               *)
(***************************************************************************)
SalesRows ==
    << [Region |-> Str("East"), Signup_Date |-> Str("2023-01-01")],
       [Region |-> Str("east"), Signup_Date |-> Str("2023-06-30")],
       [Region |-> Str("East"), Signup_Date |-> Str("2023-03-15")],
       [Region |-> JsNull,      Signup_Date |-> Str("2023-07-01")],
       [Region |-> Str("East"), Signup_Date |-> Str("n/a")],
       [Region |-> Str("east"), Signup_Date |-> JsNull],
       [Region |-> Str("East"), Signup_Date |-> Str("2023-01-01")] >>

UsersRows ==
    << [Plan |-> Str("pro"),  Year |-> Num(2020), Active |-> Bool(TRUE)],
       [Plan |-> Str("free"), Year |-> Str("2021"), Active |-> Bool(FALSE)],
       [Plan |-> Str("pro"),  Active |-> Bool(TRUE)],
       [Plan |-> Str("free"), Year |-> Num(2021), Active |-> JsNull] >>

\* Dataset ids stand for the identity of the data array (a new parse gives a
\* new array).
SalesData == "sales"
UsersData == "users"
EmptyData == "empty"

DataIds == {SalesData, UsersData, EmptyData}

DataRows(d) ==
    CASE d = SalesData -> SalesRows
      [] d = UsersData -> UsersRows
      [] OTHER         -> << >>

FirstRowKeys(d) ==
    CASE d = SalesData -> << "Region", "Signup_Date" >>
      [] d = UsersData -> << "Plan", "Year", "Active" >>
      [] OTHER         -> << >>

\* A row of a data array is an object reference: dataset d, position i.
RowRef(d, i) == [ds |-> d, i |-> i]
DataArray(d) == [i \in 1..Len(DataRows(d)) |-> RowRef(d, i)]
RowAt(r)     == DataRows(r.ds)[r.i]

Range(seq) == {seq[i] : i \in 1..Len(seq)}

\* row[key]
Cell(row, key) == IF key \in DOMAIN row THEN row[key] ELSE Undefined

(***************************************************************************)
(* FilterValue = string | {start, end} (FilterPanel).  activeFilters is a  *)
(* function from the constrained column names to their FilterValue.        *)
(***************************************************************************)
Category(v)       == [t |-> "string", s |-> v]
DateRange(s, e)   == [t |-> "object", start |-> s, end |-> e]
NoFilters         == << >>

\* EntryPasses with the end of the range excluded (rowDate < end).
EntryPasses_ExclusiveEnd(row, key, filterValue) ==
    LET rowValue == Cell(row, key) IN
    IF rowValue.t \in {"null", "undefined"} THEN FALSE
    ELSE IF filterValue.t = "string" THEN JsString(rowValue) = filterValue.s
    ELSE LET rowDate == DateParse(JsString(rowValue))
             start   == IF filterValue.start # "" THEN DateParse(filterValue.start)
                        ELSE NegInfinity
             end     == IF filterValue.end # "" THEN DateParse(filterValue.end)
                        ELSE PosInfinity
         IN  IF IsNaN(rowDate) THEN FALSE
             ELSE /\ ~IsNaN(start) /\ ~IsNaN(end)
                  /\ rowDate >= start /\ rowDate < end

\* The filter callback of the apply-filters effect: does row satisfy the
\* entry (key, filterValue)?
EntryPasses(row, key, filterValue) ==
    LET rowValue == Cell(row, key) IN
    IF rowValue.t \in {"null", "undefined"} THEN FALSE
    ELSE IF filterValue.t = "string" THEN JsString(rowValue) = filterValue.s
    ELSE LET rowDate == DateParse(JsString(rowValue))
             start   == IF filterValue.start # "" THEN DateParse(filterValue.start)
                        ELSE NegInfinity
             end     == IF filterValue.end # "" THEN DateParse(filterValue.end)
                        ELSE PosInfinity
         IN  IF IsNaN(rowDate) THEN FALSE
             ELSE /\ ~IsNaN(start) /\ ~IsNaN(end)
                  /\ rowDate >= start /\ rowDate <= end

\* RowPasses with the categorical entries as alternatives: a row passes
\* when it satisfies every date entry and, if there is a categorical entry,
\* at least one of them.
RowPasses_CategoriesAlternative(row, filters) ==
    LET categorical == {key \in DOMAIN filters : filters[key].t = "string"} IN
    /\ \A key \in DOMAIN filters \ categorical : EntryPasses(row, key, filters[key])
    /\ categorical # {} =>
          \E key \in categorical : EntryPasses(row, key, filters[key])

\* RowPasses with some() in place of every().
RowPasses_Some(row, filters) ==
    \E key \in DOMAIN filters :
        LET rowValue == Cell(row, key) IN
        /\ rowValue.t \notin {"null", "undefined"}
        /\ filters[key].t = "string" => JsString(rowValue) = filters[key].s
        /\ filters[key].t = "object" =>
              /\ ~IsNaN(DateParse(JsString(rowValue)))
              /\ filters[key].start # "" =>
                    DateParse(JsString(rowValue)) >= DateParse(filters[key].start)
              /\ filters[key].end # "" =>
                    DateParse(JsString(rowValue)) <= DateParse(filters[key].end)

\* Object.entries(activeFilters).every(...)
RowPasses(row, filters) ==
    \A key \in DOMAIN filters : EntryPasses(row, key, filters[key])

\* EvaluatorInput taking the rows published last (a cumulative filter).
EvaluatorInput_Published(dataArr, published) == published

\* The array the apply-filters effect filters: the data prop.
EvaluatorInput(dataArr, published) == dataArr

\* FilterRows handing its result back in the opposite order.
FilterRows_Reversed(arr, filters) ==
    LET kept == SelectSeq(arr, LAMBDA r : RowPasses(RowAt(r), filters))
    IN  [i \in 1..Len(kept) |-> kept[Len(kept) + 1 - i]]

\* data.filter(row => ...): a new array, in the order of its input.
FilterRows(arr, filters) ==
    SelectSeq(arr, LAMBDA r : RowPasses(RowAt(r), filters))


(***************************************************************************)
(* Column classification (FilterPanel, first effect).                      *)
(***************************************************************************)
ROW_LIMIT == 200
MaxCategories == 50

Min(a, b) == IF a < b THEN a ELSE b

\* The sort comparator of the option list.
CompareOptions(a, b) ==
    IF a.t = "number" /\ b.t = "number" THEN a.n - b.n
    ELSE LocaleCompare(JsString(a), JsString(b))

\* Array.from(new Set(values)): first occurrences, in order (of the values
\* not yet in seen).
Dedup(values, seen) ==
    LET first == SelectSeq([i \in 1..Len(values) |-> i],
                           LAMBDA i : /\ values[i] \notin seen
                                      /\ \A j \in 1..(i - 1) : values[j] # values[i])
    IN  [k \in 1..Len(first) |-> values[first[k]]]

Reverse(arr) == [i \in 1..Len(arr) |-> arr[Len(arr) + 1 - i]]

RECURSIVE RunEnd(_, _, _)
\* Array.prototype.sort for a short array: the length of the initial run
\* (ascending, or strictly descending), ...
RunEnd(arr, idx, descending) ==
    IF idx > Len(arr) THEN Len(arr)
    ELSE LET order == CompareOptions(arr[idx], arr[idx - 1]) IN
         IF (descending /\ order >= 0) \/ (~descending /\ order < 0) THEN idx - 1
         ELSE RunEnd(arr, idx + 1, descending)

RECURSIVE BinarySearch(_, _, _, _)
\* ... the position (0-based) where pivot goes among arr[left+1..right], ...
BinarySearch(arr, pivot, left, right) ==
    IF left >= right THEN left
    ELSE LET mid == left + ((right - left) \div 2) IN
         IF CompareOptions(pivot, arr[mid + 1]) < 0
         THEN BinarySearch(arr, pivot, left, mid)
         ELSE BinarySearch(arr, pivot, mid + 1, right)

RECURSIVE BinaryInsertionSort(_, _)
\* ... and the binary insertion of the elements after the run.
BinaryInsertionSort(arr, start) ==
    IF start > Len(arr) THEN arr
    ELSE LET pivot == arr[start]
             pos   == BinarySearch(arr, pivot, 0, start - 1)
             next  == SubSeq(arr, 1, pos) \o << pivot >>
                      \o SubSeq(arr, pos + 1, start - 1)
                      \o SubSeq(arr, start + 1, Len(arr))
         IN  BinaryInsertionSort(next, start + 1)

ArraySort(arr) ==
    IF Len(arr) < 2 THEN arr
    ELSE LET descending == CompareOptions(arr[2], arr[1]) < 0
             run        == RunEnd(arr, 3, descending)
             made       == IF descending
                           THEN Reverse(SubSeq(arr, 1, run)) \o SubSeq(arr, run + 1, Len(arr))
                           ELSE arr
         IN  BinaryInsertionSort(made, run + 1)

\* ColumnValues taking the values of every row (data in place of
\* sampleData).
ColumnValues_AllRows(rows, header) ==
    LET cells == [i \in 1..Len(rows) |-> Cell(rows[i], header)]
    IN  SelectSeq(cells, LAMBDA v : v.t \notin {"null", "undefined"})

\* The non-null values of column header in the sample window.
ColumnValues(rows, header) ==
    LET sampleData == SubSeq(rows, 1, Min(ROW_LIMIT, Len(rows)))
        cells      == [i \in 1..Len(sampleData) |-> Cell(sampleData[i], header)]
    IN  SelectSeq(cells, LAMBDA v : v.t \notin {"null", "undefined"})

\* IsDateValue without the test that the string is not a plain number.
IsDateValue_NoNumberTest(firstVal) ==
    /\ firstVal.t = "string"
    /\ StrLen(firstVal.s) > 5
    /\ ~IsNaN(DateParse(firstVal.s))

IsDateValue(firstVal) ==
    /\ firstVal.t = "string"
    /\ StrLen(firstVal.s) > 5
    /\ ~IsNaN(DateParse(firstVal.s))
    /\ IsNaN(StringToNumber(firstVal.s))

\* DetectColumn without the return for a column that has no values.
DetectColumn_KeepsEmpty(rows, header) ==
    LET values       == ColumnValues(rows, header)
        uniqueValues == Dedup(values, {})
    IN  IF values # << >> /\ IsDateValue(values[1]) THEN << [name |-> header, type |-> "date"] >>
        ELSE IF Len(uniqueValues) <= MaxCategories
        THEN LET sorted == ArraySort(uniqueValues) IN
             << [name |-> header, type |-> "categorical",
                 options |-> [i \in 1..Len(sorted) |-> JsString(sorted[i])]] >>
        ELSE << >>

\* The descriptor pushed for one header: << >> when none is pushed.
DetectColumn(rows, header) ==
    LET values       == ColumnValues(rows, header)
        uniqueValues == Dedup(values, {})
    IN  IF values = << >> THEN << >>
        ELSE IF IsDateValue(values[1]) THEN << [name |-> header, type |-> "date"] >>
        ELSE IF Len(uniqueValues) <= MaxCategories
        THEN LET sorted == ArraySort(uniqueValues) IN
             << [name |-> header, type |-> "categorical",
                 options |-> [i \in 1..Len(sorted) |-> JsString(sorted[i])]] >>
        ELSE << >>

RECURSIVE DetectFrom(_, _)
DetectFrom(rows, headers) ==
    IF headers = << >> THEN << >>
    ELSE DetectColumn(rows, Head(headers)) \o DetectFrom(rows, Tail(headers))

\* detectedColumns for a non-empty dataset d.
DetectColumns(d) == DetectFrom(DataRows(d), FirstRowKeys(d))

(***************************************************************************)
(* The files a user can select.  ext is the lower-cased extension,         *)
(* typeValid whether file.type is one of validTypes, content the rows the  *)
(* decoder finds in it.                                                    *)
(***************************************************************************)
FileNames == {"sales.csv", "users.xlsx", "empty.csv", "empty.xls", "notes.txt",
              "photo.png"}

FileInfo(f) ==
    CASE f = "sales.csv"  -> [ext |-> "csv",  typeValid |-> TRUE,  content |-> SalesData]
      [] f = "users.xlsx" -> [ext |-> "xlsx", typeValid |-> FALSE, content |-> UsersData]
      [] f = "empty.csv"  -> [ext |-> "csv",  typeValid |-> TRUE,  content |-> EmptyData]
      [] f = "empty.xls"  -> [ext |-> "xls",  typeValid |-> TRUE,  content |-> EmptyData]
      [] f = "notes.txt"  -> [ext |-> "txt",  typeValid |-> TRUE,  content |-> SalesData]
      [] OTHER            -> [ext |-> "png",  typeValid |-> FALSE, content |-> EmptyData]

\* The most uploads one behaviour starts.
MaxUploads == 2

VARIABLES
    dataSet,        \* App: the parsed DataSet, or Null
    analysis,       \* App: AnalysisState {isLoading, error, config}
    runs,           \* the handleFileSelect calls made so far, each with the
                    \* state of its two promises and its position
    uploadError,    \* FileUpload: error
    filteredData,   \* Dashboard: filteredData (Null while not mounted)
    columns,        \* FilterPanel: columns
    activeFilters,  \* FilterPanel: activeFilters
    dataEffects,    \* the effects with deps [data] are scheduled
    applyDeps,      \* the deps of the apply-filters effect that changed since
                    \* it last ran; it is scheduled iff there is one
    isDownloading,  \* Dashboard: isDownloading
    exportPc,       \* handleDownloadPDF of the mounted Dashboard: "idle", or
                    \* "snapshot" while it awaits html2canvas
    chart,          \* ChartWidget: currentType, hiddenSeries, hoveredSeries of
                    \* a chart of the config (Null while it is not mounted)
    data,           \* FilterPanel on its own: the rows of its data prop
    detectedColumns,\* ... the detectedColumns of its classification effect
                    \* (<< >> until the effect has run)
    sortOrder       \* ... and the arrangement the engine's sort returns for
                    \* the one array of data whose comparator is inconsistent
                    \* (<< >> when there is none)

vars == << dataSet, analysis, runs, uploadError, filteredData, columns,
           activeFilters, dataEffects, applyDeps, isDownloading, exportPc, chart,
           data, detectedColumns, sortOrder >>

classifierVars == << data, detectedColumns, sortOrder >>

appVars  == << dataSet, analysis, runs, uploadError >>
dashVars == << filteredData, columns, activeFilters, dataEffects, applyDeps,
              isDownloading, exportPc, chart >>

InitialAnalysis == [isLoading |-> FALSE, error |-> Null, config |-> Null]

\* The DataSet a parse resolves with.
ParsedDataSet(f) ==
    [fileName |-> f,
     headers  |-> FirstRowKeys(FileInfo(f).content),
     data     |-> FileInfo(f).content,
     rowCount |-> Len(DataRows(FileInfo(f).content))]

\* The DashboardConfig the AI call resolves with: made from the sample of
\* the dataset that was sent.
ConfigFor(d) == [sample |-> d]

\* A chart of the config the AI call resolves with for dataset d.
ChartConfigOf(d) ==
    IF d = UsersData
    THEN [id |-> "c1", type |-> "pie", title |-> "Users by plan",
          xKey |-> "Plan", yKeys |-> << "Year" >>]
    ELSE [id |-> "c1", type |-> "bar", title |-> "Signups by region",
          xKey |-> "Region", yKeys |-> << "Signup_Date" >>]

(***************************************************************************)
(* Rendering.                                                              *)
(***************************************************************************)
\* App's render switch: the Dashboard is rendered, else the upload screen.
ShownIn(ds, an) == an.config # Null /\ ds # Null
Shown == ShownIn(dataSet, analysis)

\* An array state value: the data prop itself, or the result of a filter.
\* id tells the result of one call of filter from the result of the call
\* before it.
DataValue(d)      == [src |-> "data", of |-> d, rows |-> DataArray(d), id |-> 0]
FilterValueOf(d, rows) == [src |-> "filter", of |-> d, rows |-> rows, id |-> 0]

\* data.filter(...) returns a new array: one that is not the array held.
NewArray(value, held) ==
    IF value.src = "filter" /\ held.src = "filter" THEN [value EXCEPT !.id = 1 - held.id]
    ELSE value

\* Object.is(a, b) for two array values: a filter result is a new array.
SameArray(a, b) == a.src = "data" /\ b.src = "data" /\ a.of = b.of

AllApplyDeps == {"activeFilters", "data", "onFilterChange"}

\* The state a ChartWidget is mounted with.
InitialChart(d) ==
    [currentType |-> ChartConfigOf(d).type, hiddenSeries |-> {}, hoveredSeries |-> Null]

\* Dashboard renders the chart grid unless filteredData is empty; a
\* ChartWidget that stays mounted keeps its state.
ChartAfter(shown, d, fd) ==
    IF ~shown \/ Len(fd.rows) = 0 THEN Null
    ELSE IF chart = Null THEN InitialChart(d)
    ELSE chart

\* The commit after App's state became (ds, an): the Dashboard is mounted
\* (useState initial values, every effect scheduled), unmounted, or
\* re-rendered with its props.  A re-render of Dashboard makes a new
\* handleFilterChange, so FilterPanel's onFilterChange dep changes, and a
\* new data prop changes the data dep of the three effects.  The
\* continuation of an export whose Dashboard was unmounted sets the state
\* of no mounted component.
RenderApp(ds, an) ==
    /\ dataSet' = ds
    /\ UNCHANGED classifierVars
    /\ analysis' = an
    /\ IF ~ShownIn(ds, an)
       THEN /\ filteredData' = Null
            /\ columns' = << >>
            /\ activeFilters' = NoFilters
            /\ dataEffects' = FALSE
            /\ applyDeps' = {}
            /\ isDownloading' = FALSE
            /\ exportPc' = "idle"
            /\ chart' = Null
       ELSE IF ~Shown
       THEN /\ filteredData' = DataValue(ds.data)
            /\ columns' = << >>
            /\ activeFilters' = NoFilters
            /\ dataEffects' = TRUE
            /\ applyDeps' = AllApplyDeps
            /\ isDownloading' = FALSE
            /\ exportPc' = "idle"
            /\ chart' = IF DataRows(ds.data) = << >> THEN Null ELSE InitialChart(ds.data)
       ELSE /\ UNCHANGED << filteredData, columns, activeFilters, isDownloading, exportPc,
                            chart >>
            /\ dataEffects' = (dataEffects \/ ds.data # dataSet.data)
            /\ applyDeps' = applyDeps \cup {"onFilterChange"}
                            \cup (IF ds.data # dataSet.data THEN {"data"} ELSE {})

(***************************************************************************)
(* FilterPanel and Dashboard: effects.                                     *)
(***************************************************************************)
\* ApplyFilters passing a copy of data for an empty mapping.
ApplyFilters_PublishesCopy(d, filters, published) ==
    IF DOMAIN filters = {} THEN FilterValueOf(d, DataArray(d))
    ELSE FilterValueOf(d, FilterRows(EvaluatorInput(DataArray(d), published), filters))

\* ApplyFilters without the early return for an empty mapping.
ApplyFilters_AlwaysFilters(d, filters, published) ==
    FilterValueOf(d, FilterRows(EvaluatorInput(DataArray(d), published), filters))

\* What the apply-filters effect passes to onFilterChange.
ApplyFilters(d, filters, published) ==
    IF DOMAIN filters = {} THEN DataValue(d)
    ELSE FilterValueOf(d, FilterRows(EvaluatorInput(DataArray(d), published), filters))

\* ClassifyRuns with the test of the early return inverted.
ClassifyRuns_Inverted(d) == DataRows(d) = << >>

\* The classification effect returns early on an empty dataset.
ClassifyRuns(d) == DataRows(d) # << >>

\* The flush of the scheduled passive effects of the last commit, in order:
\* FilterPanel's classification effect, FilterPanel's apply-filters effect,
\* Dashboard's reset effect; every effect sees the values of that commit.
\* Then the render their state updates cause.
FlushEffects ==
    /\ Shown
    /\ dataEffects \/ applyDeps # {}
    /\ LET d         == dataSet.data
           classify  == dataEffects /\ ClassifyRuns(d)
           apply     == applyDeps # {}
           fdNext    == IF dataEffects THEN DataValue(d)
                        ELSE IF apply
                        THEN NewArray(ApplyFilters(d, activeFilters, filteredData.rows),
                                      filteredData)
                        ELSE filteredData
           fdChanged == ~SameArray(fdNext, filteredData)
       IN  /\ filteredData' = fdNext
           /\ columns' = IF classify THEN DetectColumns(d) ELSE columns
           /\ activeFilters' = IF classify THEN NoFilters ELSE activeFilters
           /\ dataEffects' = FALSE
           /\ applyDeps' = (IF classify THEN {"activeFilters"} ELSE {})
                           \cup (IF fdChanged THEN {"onFilterChange"} ELSE {})
    /\ chart' = ChartAfter(TRUE, dataSet.data, filteredData')
    /\ UNCHANGED << isDownloading, exportPc >>
    /\ UNCHANGED appVars
    /\ UNCHANGED classifierVars

(***************************************************************************)
(* FilterPanel: the handlers of the filter controls.                       *)
(***************************************************************************)
\* The values a date input can hand to handleDateChange (besides "").
DateInputs == {"2023-01-01", "2023-06-30"}

\* const next = { ...prev }; delete next[column]
DeleteKey(prev, column) == [k \in DOMAIN prev \ {column} |-> prev[k]]
\* SetKey building the next object from the one entry alone.
SetKey_DropsOthers(prev, column, value) == [k \in {column} |-> value]

\* const next = { ...prev }; next[column] = value
SetKey(prev, column, value) ==
    [k \in DOMAIN prev \cup {column} |-> IF k = column THEN value ELSE prev[k]]

\* CategoryUpdate storing the empty selection like any other.
CategoryUpdate_StoresEmpty(prev, column, value) ==
    [k \in DOMAIN prev \cup {column} |-> IF k = column THEN Category(value) ELSE prev[k]]

\* The state updater of handleCategoryChange.
CategoryUpdate(prev, column, value) ==
    IF value = "" THEN DeleteKey(prev, column)
    ELSE SetKey(prev, column, Category(value))

\* The state updater of handleDateChange.
DateUpdate(prev, column, field, value) ==
    LET current      == IF column \in DOMAIN prev THEN prev[column]
                        ELSE DateRange("", "")
        newDateRange == IF field = "start" THEN DateRange(value, current.end)
                        ELSE DateRange(current.start, value)
    IN  IF newDateRange.start = "" /\ newDateRange.end = ""
        THEN DeleteKey(prev, column)
        ELSE SetKey(prev, column, newDateRange)

\* setActiveFilters always stores a new object: FilterPanel re-renders and
\* the activeFilters dep of the apply-filters effect has changed.
SetActiveFilters(next) ==
    /\ activeFilters' = next
    /\ applyDeps' = applyDeps \cup {"activeFilters"}
    /\ UNCHANGED << filteredData, columns, dataEffects, isDownloading, exportPc, chart >>
    /\ UNCHANGED appVars
    /\ UNCHANGED classifierVars

ColumnsOfType(type) == {columns[i] : i \in {j \in 1..Len(columns) : columns[j].type = type}}
Options(col) == {col.options[i] : i \in 1..Len(col.options)}

\* A choice in the dropdown of a categorical column ("" is "All").
handleCategoryChange(column, value) ==
    /\ Shown
    /\ \E col \in ColumnsOfType("categorical") :
          col.name = column /\ value \in Options(col) \cup {""}
    /\ SetActiveFilters(CategoryUpdate(activeFilters, column, value))

\* A change of one of the two date inputs of a date column.
handleDateChange(column, field, value) ==
    /\ Shown
    /\ \E col \in ColumnsOfType("date") : col.name = column
    /\ SetActiveFilters(DateUpdate(activeFilters, column, field, value))

\* The "Clear" button, rendered while a filter is active.
clearAll ==
    /\ Shown
    /\ columns # << >>
    /\ DOMAIN activeFilters # {}
    /\ SetActiveFilters(NoFilters)

(***************************************************************************)
(* Dashboard: handleFilterChange from the "Reset Filters" button, which is *)
(* rendered while filteredData is empty.                                   *)
(***************************************************************************)
ResetFiltersClick ==
    /\ Shown
    /\ Len(filteredData.rows) = 0
    /\ LET next == DataValue(dataSet.data) IN
       IF SameArray(next, filteredData)
       THEN UNCHANGED << filteredData, applyDeps >>
       ELSE /\ filteredData' = next
            /\ applyDeps' = applyDeps \cup {"onFilterChange"}
    /\ chart' = ChartAfter(TRUE, dataSet.data, filteredData')
    /\ UNCHANGED << columns, activeFilters, dataEffects, isDownloading, exportPc >>
    /\ UNCHANGED appVars
    /\ UNCHANGED classifierVars

\* How an export can end: the file is saved, html2canvas rejects, or jsPDF
\* throws.
ExportOutcomes == {"saved", "snapshotRejected", "pdfThrows"}

\* IsDownloadingAfter with the flag cleared at the end of the try block
\* instead of in a finally block.
IsDownloadingAfter_NoFinally(outcome) == outcome # "saved"

\* isDownloading once handleDownloadPDF has left its try statement.
IsDownloadingAfter(outcome) == FALSE

\* "Export PDF", disabled while isDownloading: handleDownloadPDF up to its
\* await.  The element 'dashboard-content' is rendered by every Dashboard.
\* The Dashboard is rendered again, with a new handleFilterChange.
handleDownloadPDF ==
    /\ Shown
    /\ ~isDownloading
    /\ isDownloading' = TRUE
    /\ exportPc' = "snapshot"
    /\ applyDeps' = applyDeps \cup {"onFilterChange"}
    /\ UNCHANGED << filteredData, columns, activeFilters, dataEffects, chart >>
    /\ UNCHANGED appVars
    /\ UNCHANGED classifierVars

\* handleDownloadPDF after its await: the rest of the try block or the
\* catch block, then the finally block.
ExportSettles(outcome) ==
    /\ Shown
    /\ exportPc = "snapshot"
    /\ exportPc' = "idle"
    /\ isDownloading' = IsDownloadingAfter(outcome)
    /\ applyDeps' = IF isDownloading' # isDownloading
                    THEN applyDeps \cup {"onFilterChange"} ELSE applyDeps
    /\ UNCHANGED << filteredData, columns, activeFilters, dataEffects, chart >>
    /\ UNCHANGED appVars
    /\ UNCHANGED classifierVars

(***************************************************************************)
(* ChartWidget: the chart type buttons and the legend.                     *)
(***************************************************************************)
ChartTypes == {"bar", "line", "area", "pie", "scatter"}

\* const pieData = data.filter(entry => !hiddenSeries.has(String(entry[config.xKey])))
PieData(rows, xKey, hidden) ==
    SelectSeq(rows, LAMBDA r : JsString(Cell(RowAt(r), xKey)) \notin hidden)

\* The entries of the legend, by e.dataKey || e.value: the series of
\* yKeys, the names of the pie's cells, or the name of the scatter.
LegendKeys ==
    LET config == ChartConfigOf(dataSet.data) IN
    CASE chart.currentType \in {"bar", "line", "area"} ->
             {config.yKeys[i] : i \in 1..Len(config.yKeys)}
      [] chart.currentType = "pie" ->
             {JsString(Cell(RowAt(r), config.xKey)) :
                  r \in Range(PieData(filteredData.rows, config.xKey, chart.hiddenSeries))}
      [] OTHER -> {config.title}

\* A state update of the ChartWidget: it alone is rendered again.
SetChart(next) ==
    /\ chart' = next
    /\ UNCHANGED classifierVars
    /\ UNCHANGED << filteredData, columns, activeFilters, dataEffects, applyDeps,
                    isDownloading, exportPc >>
    /\ UNCHANGED appVars
    /\ UNCHANGED classifierVars

\* A button of the chart switcher.
setCurrentType(type) ==
    /\ chart # Null
    /\ SetChart([chart EXCEPT !.currentType = type])

\* handleLegendClick hiding a pie cell by removing its rows from the data
\* array in place.
handleLegendClick_MutatesData(key) ==
    /\ chart # Null
    /\ key \in LegendKeys
    /\ chart' = [chart EXCEPT !.hiddenSeries = IF key \in @ THEN @ \ {key}
                                               ELSE @ \cup {key}]
    /\ filteredData' = [filteredData EXCEPT
                           !.rows = PieData(@, ChartConfigOf(dataSet.data).xKey,
                                            chart'.hiddenSeries)]
    /\ UNCHANGED << columns, activeFilters, dataEffects, applyDeps, isDownloading,
                    exportPc >>
    /\ UNCHANGED appVars
    /\ UNCHANGED classifierVars

handleLegendClick(key) ==
    /\ chart # Null
    /\ key \in LegendKeys
    /\ SetChart([chart EXCEPT !.hiddenSeries = IF key \in @ THEN @ \ {key}
                                               ELSE @ \cup {key}])

handleLegendMouseEnter(key) ==
    /\ chart # Null
    /\ key \in LegendKeys
    /\ SetChart([chart EXCEPT !.hoveredSeries = [key |-> key]])

handleLegendMouseLeave ==
    /\ chart # Null
    /\ SetChart([chart EXCEPT !.hoveredSeries = Null])

\* The keys a legend of the modelled charts can show.
AllLegendKeys == {"Year", "Signup_Date", "pro", "free", "East", "east", "null",
                  "Users by plan", "Signups by region"}

\* A user action on a mounted chart.
ChartStep ==
    \/ \E type \in ChartTypes : setCurrentType(type)
    \/ \E key \in AllLegendKeys : handleLegendClick(key)
    \/ \E key \in AllLegendKeys : handleLegendMouseEnter(key)
    \/ handleLegendMouseLeave

\* A user action on the mounted dashboard, or the flush of its effects.
DashboardStep ==
    \/ FlushEffects
    \/ \E column \in {"Region", "Plan", "Year", "Active"},
          value \in {"", "East", "east", "pro", "free", "2020", "2021", "true", "false"} :
          handleCategoryChange(column, value)
    \/ \E column \in {"Signup_Date"}, field \in {"start", "end"},
          value \in DateInputs \cup {""} :
          handleDateChange(column, field, value)
    \/ clearAll
    \/ ResetFiltersClick
    \/ handleDownloadPDF
    \/ \E outcome \in ExportOutcomes : ExportSettles(outcome)

(***************************************************************************)
(* App: the upload pipeline.                                               *)
(***************************************************************************)
\* FileUploadEnabled with the controls disabled only once a dataset is
\* stored.
FileUploadEnabled_UntilParsed == ~Shown /\ dataSet = Null

\* FileUploadEnabled with the controls left usable while isProcessing.
FileUploadEnabled_NotGated == ~Shown

\* FileUpload is rendered on the upload screen; while isProcessing its
\* drop zone takes no pointer events and its file input is not rendered.
FileUploadEnabled == ~Shown /\ ~analysis.isLoading

\* Fulfilled for a call that is not awaited.
Fulfilled_NotAwaited(status) == status \in {"pending", "resolved"}

\* The continuation after an await runs once the awaited promise is
\* fulfilled.
Fulfilled(status) == status = "resolved"

InFlight == {r \in 1..Len(runs) : runs[r].pc # "done"}

\* handleFileSelect up to its first await: parseFile is called.
handleFileSelect(file) ==
    /\ runs' = Append(runs, [file |-> file, pc |-> "parse", parse |-> "pending",
                             ai |-> "none", error |-> ""])
    /\ RenderApp(dataSet, [analysis EXCEPT !.isLoading = TRUE, !.error = Null])

\* validateAndPassFile handing every file to onFileSelect.
validateAndPassFile_NoValidation(file) ==
    /\ FileUploadEnabled
    /\ Len(runs) < MaxUploads
    /\ uploadError' = Null
    /\ handleFileSelect(file)

\* FileUpload: a file dropped or chosen.
validateAndPassFile(file) ==
    /\ FileUploadEnabled
    /\ Len(runs) < MaxUploads
    /\ LET isCsvOrExcel == FileInfo(file).ext \in {"csv", "xls", "xlsx"} IN
       IF FileInfo(file).typeValid \/ isCsvOrExcel
       THEN /\ uploadError' = Null
            /\ handleFileSelect(file)
       ELSE /\ uploadError' = [message |-> "Please upload a valid CSV or Excel file."]
            /\ UNCHANGED << dataSet, analysis, runs >>
            /\ UNCHANGED dashVars
            /\ UNCHANGED classifierVars

\* ParseError without the test for a result of zero rows.
ParseError_NoRowCheck(file, readFails) ==
    LET info == FileInfo(file) IN
    IF info.ext \notin {"csv", "xls", "xlsx"}
    THEN "Unsupported file format. Please upload CSV or Excel files."
    ELSE IF readFails THEN "An unexpected error occurred"
    ELSE ""

\* The message parseFile rejects with, "" when it resolves.  A reader or
\* decoder error carries no message the catch block can show.
ParseError(file, readFails) ==
    LET info == FileInfo(file) IN
    IF info.ext \notin {"csv", "xls", "xlsx"}
    THEN "Unsupported file format. Please upload CSV or Excel files."
    ELSE IF readFails THEN "An unexpected error occurred"
    ELSE IF DataRows(info.content) = << >>
    THEN IF info.ext = "csv" THEN "No data found in CSV file"
         ELSE "No data found in Excel file"
    ELSE ""

\* parseFile settles: rejected for another extension, for a file without
\* rows, or when reading fails; else resolved with the DataSet.
ParseSettles(r, readFails) ==
    /\ r \in 1..Len(runs)
    /\ runs[r].pc = "parse" /\ runs[r].parse = "pending"
    /\ LET message == ParseError(runs[r].file, readFails)
       IN  runs' = [runs EXCEPT ![r].parse = IF message = "" THEN "resolved" ELSE "rejected",
                                ![r].error = message]
    /\ UNCHANGED << dataSet, analysis, uploadError >>
    /\ UNCHANGED dashVars
    /\ UNCHANGED classifierVars

\* handleFileSelect after `await parseFile`: setDataSet, prepareDataSample,
\* generateDashboardConfig is called.
AfterParse(r) ==
    /\ r \in 1..Len(runs)
    /\ runs[r].pc = "parse" /\ Fulfilled(runs[r].parse)
    /\ runs' = [runs EXCEPT ![r].pc = "ai", ![r].ai = "pending"]
    /\ RenderApp(ParsedDataSet(runs[r].file), analysis)
    /\ uploadError' = IF ShownIn(dataSet', analysis') THEN Null ELSE uploadError

\* What can come of the request to the model: a config, a rejected
\* request, a response without text, a text that is not JSON.
AIOutcomes == {"config", "requestRejected", "emptyText", "unparsable"}

\* AIError with the catch block rethrowing the error it caught.
AIError_Rethrown(outcome) ==
    CASE outcome = "config"          -> ""
      [] outcome = "requestRejected" -> "An unexpected error occurred"
      [] outcome = "emptyText"       -> "Empty response from AI"
      [] OTHER                       -> "Unexpected token in JSON"

\* The message generateDashboardConfig rejects with, "" when it resolves.
AIError(outcome) ==
    IF outcome = "config" THEN "" ELSE "Failed to analyze data. Please try again."

\* generateDashboardConfig settles: every failure is rethrown as one error.
AISettles(r, outcome) ==
    /\ r \in 1..Len(runs)
    /\ runs[r].pc = "ai" /\ runs[r].ai = "pending"
    /\ runs' = [runs EXCEPT ![r].ai = IF AIError(outcome) = "" THEN "resolved"
                                      ELSE "rejected",
                            ![r].error = AIError(outcome)]
    /\ UNCHANGED << dataSet, analysis, uploadError >>
    /\ UNCHANGED dashVars
    /\ UNCHANGED classifierVars

\* handleFileSelect after `await generateDashboardConfig`: the config is
\* published.
AfterAI(r) ==
    /\ r \in 1..Len(runs)
    /\ runs[r].pc = "ai" /\ Fulfilled(runs[r].ai)
    /\ runs' = [runs EXCEPT ![r].pc = "done"]
    /\ RenderApp(dataSet, [isLoading |-> FALSE, error |-> Null,
                           config |-> ConfigFor(ParsedDataSet(runs[r].file).data)])
    /\ uploadError' = IF ShownIn(dataSet', analysis') THEN Null ELSE uploadError

\* Catch without setDataSet(null).
Catch_KeepsDataSet(r) ==
    /\ r \in 1..Len(runs)
    /\ \/ runs[r].pc = "parse" /\ runs[r].parse = "rejected"
       \/ runs[r].pc = "ai" /\ runs[r].ai = "rejected"
    /\ runs' = [runs EXCEPT ![r].pc = "done"]
    /\ RenderApp(dataSet, [isLoading |-> FALSE, error |-> [message |-> runs[r].error],
                           config |-> Null])
    /\ UNCHANGED uploadError

\* The catch block of handleFileSelect.
Catch(r) ==
    /\ r \in 1..Len(runs)
    /\ \/ runs[r].pc = "parse" /\ runs[r].parse = "rejected"
       \/ runs[r].pc = "ai" /\ runs[r].ai = "rejected"
    /\ runs' = [runs EXCEPT ![r].pc = "done"]
    /\ RenderApp(Null, [isLoading |-> FALSE, error |-> [message |-> runs[r].error],
                        config |-> Null])
    /\ UNCHANGED uploadError

\* handleReset without setDataSet(null).
handleReset_KeepsDataSet ==
    /\ Shown
    /\ RenderApp(dataSet, InitialAnalysis)
    /\ UNCHANGED << runs, uploadError >>

\* "New Analysis" on the dashboard.
handleReset ==
    /\ Shown
    /\ RenderApp(Null, InitialAnalysis)
    /\ UNCHANGED << runs, uploadError >>

Init ==
    /\ dataSet = Null
    /\ analysis = InitialAnalysis
    /\ runs = << >>
    /\ uploadError = Null
    /\ filteredData = Null
    /\ columns = << >>
    /\ activeFilters = NoFilters
    /\ dataEffects = FALSE
    /\ applyDeps = {}
    /\ isDownloading = FALSE
    /\ exportPc = "idle"
    /\ chart = Null
    /\ data = << >>
    /\ detectedColumns = << >>
    /\ sortOrder = << >>

Next ==
    \/ \E file \in FileNames : validateAndPassFile(file)
    \/ \E r \in 1..MaxUploads, readFails \in BOOLEAN : ParseSettles(r, readFails)
    \/ \E r \in 1..MaxUploads : AfterParse(r)
    \/ \E r \in 1..MaxUploads, outcome \in AIOutcomes : AISettles(r, outcome)
    \/ \E r \in 1..MaxUploads : AfterAI(r)
    \/ \E r \in 1..MaxUploads : Catch(r)
    \/ handleReset
    \/ DashboardStep

Spec == Init /\ [][Next]_vars

\* The dashboard of users.xlsx, just mounted, with the filters of two of its
\* columns and one of its charts in use.
ChartInit ==
    /\ dataSet = ParsedDataSet("users.xlsx")
    /\ analysis = [isLoading |-> FALSE, error |-> Null, config |-> ConfigFor(UsersData)]
    /\ runs = << [file |-> "users.xlsx", pc |-> "done", parse |-> "resolved",
                  ai |-> "resolved", error |-> ""] >>
    /\ uploadError = Null
    /\ filteredData = DataValue(UsersData)
    /\ columns = << >>
    /\ activeFilters = NoFilters
    /\ dataEffects = TRUE
    /\ applyDeps = AllApplyDeps
    /\ isDownloading = FALSE
    /\ exportPc = "idle"
    /\ chart = InitialChart(UsersData)
    /\ data = << >>
    /\ detectedColumns = << >>
    /\ sortOrder = << >>

ChartNext ==
    \/ FlushEffects
    \/ \E column \in {"Plan", "Year"}, value \in {"", "pro", "free", "2020", "2021"} :
          handleCategoryChange(column, value)
    \/ clearAll
    \/ ResetFiltersClick
    \/ ChartStep

ChartSpec == ChartInit /\ [][ChartNext]_vars

\* Dashboard and FilterPanel on their own: a Dashboard just mounted by a
\* parent that hands it a config and a data array, which may have no rows.
DashboardInit ==
    /\ \E file \in {"sales.csv", "users.xlsx", "empty.csv"} :
          /\ dataSet = ParsedDataSet(file)
          /\ analysis = [isLoading |-> FALSE, error |-> Null,
                         config |-> ConfigFor(FileInfo(file).content)]
          /\ filteredData = DataValue(FileInfo(file).content)
          /\ chart = IF DataRows(FileInfo(file).content) = << >> THEN Null
                     ELSE InitialChart(FileInfo(file).content)
    /\ runs = << >>
    /\ uploadError = Null
    /\ columns = << >>
    /\ activeFilters = NoFilters
    /\ dataEffects = TRUE
    /\ applyDeps = AllApplyDeps
    /\ isDownloading = FALSE
    /\ exportPc = "idle"
    /\ data = << >>
    /\ detectedColumns = << >>
    /\ sortOrder = << >>

DashboardNext == DashboardStep

DashboardSpec == DashboardInit /\ [][DashboardNext]_vars

\* React runs the passive effects it has scheduled.
DashboardLiveSpec == DashboardSpec /\ WF_vars(FlushEffects)

(***************************************************************************)
(* The classification effect on its own: FilterPanel is given a data array *)
(* made of a column A with up to MaxColumnLen cells, a numeric column      *)
(* UserID without repeats, a column Empty of nulls and a column Z with one *)
(* value.  A parser leaves the key of an empty cell out of the row, so a   *)
(* cell can be absent.                                                     *)
(***************************************************************************)
ColumnOrder == << "UserID", "A", "Empty", "Z" >>

CellValues == {Str("2023-01-01"), Str("+002020"), Str("2020"), Num(2020), Num(7),
               Str("5"), Str("Europe"), JsNull, Undefined}

\* The most cells of column A that are drawn freely.
MaxColumnLen == 3

SeqsUpTo(S, n) == UNION {[1..k -> S] : k \in 1..n}

\* Row i with the given cell in column A.
RowWith(cell, i) ==
    LET keys == {"UserID", "Empty", "Z"} \cup (IF cell = Undefined THEN {} ELSE {"A"})
    IN  [k \in keys |-> CASE k = "UserID" -> Num(100 + i)
                          [] k = "A"      -> cell
                          [] k = "Empty"  -> JsNull
                          [] OTHER        -> Str("east")]

GeneratedRow(a, i) == RowWith(IF i <= Len(a) THEN a[i] ELSE JsNull, i)

GeneratedData(a, n) == [i \in 1..n |-> GeneratedRow(a, i)]

\* ROW_LIMIT rows made from a, then one row for each cell of tail.
LongData(a, tail) ==
    [i \in 1..(ROW_LIMIT + Len(tail)) |->
        IF i <= ROW_LIMIT THEN GeneratedRow(a, i) ELSE RowWith(tail[i - ROW_LIMIT], i)]

\* The data arrays tried: as long as column A; with as many rows as make
\* UserID have MaxCategories distinct values, or one more; with as many
\* rows as the sample window has, and with a row more than that.
Inputs ==
    {GeneratedData(a, Len(a)) : a \in SeqsUpTo(CellValues, MaxColumnLen)}
    \cup {GeneratedData(a, n) : a \in SeqsUpTo(CellValues, 1),
                                n \in {MaxCategories, MaxCategories + 1, ROW_LIMIT}}
    \cup {LongData(a, tail) : a \in SeqsUpTo(CellValues, 1),
                              tail \in SeqsUpTo(CellValues, 1)}

PermutationsOf(n) ==
    {p \in [1..n -> 1..n] : \A i, j \in 1..n : i # j => p[i] # p[j]}

Rearranged(rows, p) == [i \in 1..Len(rows) |-> rows[p[i]]]

\* The comparator is a consistent comparator for the values (ECMAScript,
\* Array.prototype.sort): both a <= b and a < b are transitive on them.
ConsistentComparator(values) ==
    \/ \A v \in values : v.t = "number"
    \/ \A a, b, c \in values :
          /\ (CompareOptions(a, b) <= 0 /\ CompareOptions(b, c) <= 0)
                => CompareOptions(a, c) <= 0
          /\ (CompareOptions(a, b) < 0 /\ CompareOptions(b, c) < 0)
                => CompareOptions(a, c) < 0

\* uniqueValues.sort(comparator): the sorted array when the comparator is
\* consistent; otherwise the order is implementation-defined, any
\* arrangement of the values (ArraySort gives the one of V8).
SortOutcomes(arr) ==
    IF ConsistentComparator(Range(arr)) THEN {ArraySort(arr)}
    ELSE {Rearranged(arr, p) : p \in PermutationsOf(Len(arr))}

\* The descriptors that can be pushed for one header.
ColumnOutcomes(rows, header) ==
    LET pushed == DetectColumn(rows, header) IN
    IF pushed = << >> \/ pushed[1].type = "date" THEN {pushed}
    ELSE {<< [pushed[1] EXCEPT !.options = [i \in 1..Len(sorted) |-> JsString(sorted[i])]] >> :
             sorted \in SortOutcomes(Dedup(ColumnValues(rows, header), {}))}

RECURSIVE DetectOutcomes(_, _)
\* The values detectedColumns can have after headers.forEach.
DetectOutcomes(rows, headers) ==
    IF headers = << >> THEN {<< >>}
    ELSE {first \o rest : first \in ColumnOutcomes(rows, Head(headers)),
                          rest \in DetectOutcomes(rows, Tail(headers))}

\* Object.keys(row)
ObjectKeys(row) == SelectSeq(ColumnOrder, LAMBDA k : k \in DOMAIN row)

\* uniqueValues.sort(comparator) of an engine that arranges the array with
\* the inconsistent comparator by order.
SortWith(order, arr) ==
    IF ConsistentComparator(Range(arr)) \/ Len(order) # Len(arr) THEN ArraySort(arr)
    ELSE Rearranged(arr, order)

\* The descriptor pushed for one header by that engine.
ColumnWith(order, rows, header) ==
    LET pushed == DetectColumn(rows, header) IN
    IF pushed = << >> \/ pushed[1].type = "date" THEN pushed
    ELSE LET sorted == SortWith(order, Dedup(ColumnValues(rows, header), {})) IN
         << [pushed[1] EXCEPT !.options = [i \in 1..Len(sorted) |-> JsString(sorted[i])]] >>

RECURSIVE DetectWith(_, _, _)
\* detectedColumns after headers.forEach, by that engine.
DetectWith(order, rows, headers) ==
    IF headers = << >> THEN << >>
    ELSE ColumnWith(order, rows, Head(headers)) \o DetectWith(order, rows, Tail(headers))

\* The arrangements an engine can return for the array of rows whose
\* comparator is inconsistent.
SortOrders(rows) ==
    LET mixed == {h \in Range(ObjectKeys(rows[1])) : Cardinality(ColumnOutcomes(rows, h)) > 1}
    IN  IF mixed = {} THEN {<< >>}
        ELSE UNION {PermutationsOf(Len(Dedup(ColumnValues(rows, h), {}))) : h \in mixed}

\* Two data arrays with the same rows in the sample window.
SameWindow(a, b) ==
    /\ Min(ROW_LIMIT, Len(a)) = Min(ROW_LIMIT, Len(b))
    /\ SubSeq(a, 1, Min(ROW_LIMIT, Len(a))) = SubSeq(b, 1, Min(ROW_LIMIT, Len(b)))

\* The data arrays tried that fill the sample window.
WindowInputs ==
    {GeneratedData(a, ROW_LIMIT) : a \in SeqsUpTo(CellValues, 1)}
    \cup {LongData(a, tail) : a \in SeqsUpTo(CellValues, 1),
                              tail \in SeqsUpTo(CellValues, 1)}

\* The data arrays tried that have the sample window of rows.
WindowMates(rows) ==
    IF Len(rows) < ROW_LIMIT THEN {rows}
    ELSE {other \in WindowInputs : SameWindow(other, rows)}

ClassifierInit ==
    /\ data \in Inputs
    /\ sortOrder \in SortOrders(data)
    /\ detectedColumns = << >>
    /\ dataSet = Null
    /\ analysis = InitialAnalysis
    /\ runs = << >>
    /\ uploadError = Null
    /\ filteredData = Null
    /\ columns = << >>
    /\ activeFilters = NoFilters
    /\ dataEffects = TRUE
    /\ applyDeps = {}
    /\ isDownloading = FALSE
    /\ exportPc = "idle"
    /\ chart = Null

\* The classification effect up to setColumns(detectedColumns).
ClassificationEffect ==
    /\ dataEffects
    /\ data # << >>
    /\ detectedColumns' = DetectWith(sortOrder, data, ObjectKeys(data[1]))
    /\ dataEffects' = FALSE
    /\ UNCHANGED << data, sortOrder, appVars, filteredData, columns, activeFilters,
                    applyDeps, isDownloading, exportPc, chart >>

\* The classification effect has run on the data array.
Classified == data # << >> /\ ~dataEffects

\* FilterPanel is rendered with another array as its data prop, one with
\* the same rows in the sample window (the same array again, or one that
\* differs after the window): the effects with deps [data] are scheduled.
NewDataProp(rows) ==
    /\ Classified
    /\ SameWindow(rows, data)
    /\ data' = rows
    /\ dataEffects' = TRUE
    /\ UNCHANGED << detectedColumns, sortOrder, appVars, filteredData, columns,
                    activeFilters, applyDeps, isDownloading, exportPc, chart >>

ClassifierNext ==
    \/ ClassificationEffect
    \/ \E rows \in WindowMates(data) : NewDataProp(rows)

ClassifierSpec == ClassifierInit /\ [][ClassifierNext]_vars

\* The promise of html2canvas settles and the continuation of
\* handleDownloadPDF is then run by the event loop.
LiveSpec == Spec /\ WF_vars(\E outcome \in ExportOutcomes : ExportSettles(outcome))

(***************************************************************************)
(* Properties.                                                             *)
(***************************************************************************)
\* No passive effect is scheduled.
Quiescent == ~dataEffects /\ applyDeps = {}

\* The apply-filters effect has run since the constraints and the dataset
\* last changed: it is scheduled at most because Dashboard re-rendered and
\* handed FilterPanel a new onFilterChange.
EvaluatorCurrent == Shown /\ ~dataEffects /\ applyDeps \subseteq {"onFilterChange"}

\* ... and the array on display is the one it passed to onFilterChange, not
\* the full dataset the "Reset Filters" button puts there until the next run.
EvaluatorPublished ==
    /\ EvaluatorCurrent
    /\ DOMAIN activeFilters = {} \/ filteredData.src = "filter"


\* The rows of dataset d at strictly increasing positions.
IsSubsequenceOf(rows, d) ==
    /\ \A i \in 1..Len(rows) : rows[i].ds = d /\ rows[i].i \in 1..Len(DataRows(d))
    /\ \A i, j \in 1..Len(rows) : i < j => rows[i].i < rows[j].i

\* C1: whenever the dashboard is shown, the rows given to the charts are
\* rows of the current dataset, in the dataset's order.
C1_PublishedIsSubsequence ==
    Shown => IsSubsequenceOf(filteredData.rows, dataSet.data)

\* C1 witness: a second dataset has replaced the first and a filter keeps
\* some of its rows.
C1_Witness ==
    /\ Shown
    /\ Len(runs) = 2 /\ runs[1].ai = "resolved"
    /\ runs[2].file # runs[1].file
    /\ filteredData.src = "filter"
    /\ Len(filteredData.rows) >= 2
    /\ Len(filteredData.rows) < Len(DataRows(dataSet.data))

\* C2: with no active constraint the evaluator publishes the data array
\* itself: all rows, and the same reference.
C2_EmptyMappingPublishesData ==
    (EvaluatorCurrent /\ DOMAIN activeFilters = {}) =>
        /\ filteredData = DataValue(dataSet.data)
        /\ filteredData.src = "data"
        /\ filteredData.rows = DataArray(dataSet.data)

\* C2 witness: the filter controls are there, no constraint is active and
\* the evaluator has run.
C2_Witness ==
    /\ EvaluatorCurrent /\ Quiescent
    /\ DOMAIN activeFilters = {}
    /\ columns # << >>
    /\ Len(filteredData.rows) > 0

\* What the specification asks of one constraint, for a row.
CategoricalSatisfied(row, k, selected) ==
    /\ k \in DOMAIN row
    /\ row[k] # JsNull
    /\ JsString(row[k]) = selected

DateSatisfied(row, k, start, end) ==
    /\ k \in DOMAIN row
    /\ row[k] # JsNull
    /\ LET date == DateParse(JsString(row[k])) IN
       /\ date # NaN
       /\ start = "" \/ DateParse(start) <= date
       /\ end = "" \/ date <= DateParse(end)

Satisfied(row, k, constraint) ==
    IF constraint.t = "string" THEN CategoricalSatisfied(row, k, constraint.s)
    ELSE DateSatisfied(row, k, constraint.start, constraint.end)

\* C3: with a non-empty mapping a row is published iff it satisfies every
\* constraint; a row whose cell for a constrained column is null or absent
\* is not published.
C3_RetainedIffAllSatisfied ==
    (EvaluatorPublished /\ DOMAIN activeFilters # {}) =>
        \A i \in 1..Len(DataRows(dataSet.data)) :
            LET row == DataRows(dataSet.data)[i] IN
            /\ RowRef(dataSet.data, i) \in Range(filteredData.rows)
                  <=> \A k \in DOMAIN activeFilters : Satisfied(row, k, activeFilters[k])
            /\ (\E k \in DOMAIN activeFilters : Cell(row, k).t \in {"null", "undefined"})
                  => RowRef(dataSet.data, i) \notin Range(filteredData.rows)

\* C3 witness: two constraints on two columns keep some rows and drop a row
\* that satisfies only one of them.
C3_Witness ==
    /\ EvaluatorPublished
    /\ Cardinality(DOMAIN activeFilters) >= 2
    /\ Len(filteredData.rows) > 0
    /\ \E i \in 1..Len(DataRows(dataSet.data)) :
          /\ RowRef(dataSet.data, i) \notin Range(filteredData.rows)
          /\ \E k \in DOMAIN activeFilters :
                Satisfied(DataRows(dataSet.data)[i], k, activeFilters[k])

\* C4: under a date-range constraint on column k a row is published iff its
\* cell parses to a date d with start <= d <= end, an empty bound being
\* unbounded; a row whose cell does not parse is not published.
C4_DateRangeInclusive ==
    (EvaluatorPublished /\ DOMAIN activeFilters # {}) =>
        \A k \in DOMAIN activeFilters : activeFilters[k].t = "object" =>
            \A i \in 1..Len(DataRows(dataSet.data)) :
                LET row  == DataRows(dataSet.data)[i]
                    date == DateParse(JsString(Cell(row, k)))
                    rest == {j \in DOMAIN activeFilters : j # k}
                IN  /\ RowRef(dataSet.data, i) \in Range(filteredData.rows)
                          => /\ date # NaN
                             /\ activeFilters[k].start # "" =>
                                    DateParse(activeFilters[k].start) <= date
                             /\ activeFilters[k].end # "" =>
                                    date <= DateParse(activeFilters[k].end)
                    /\ ( /\ rest = {}
                         /\ Cell(row, k).t \notin {"null", "undefined"}
                         /\ date # NaN
                         /\ activeFilters[k].start = "" \/
                                DateParse(activeFilters[k].start) <= date
                         /\ activeFilters[k].end = "" \/
                                date <= DateParse(activeFilters[k].end) )
                          => RowRef(dataSet.data, i) \in Range(filteredData.rows)

\* C4 witness: a range with both bounds keeps the row on its start day and
\* the row on its end day and drops the row whose cell is not a date.
C4_Witness ==
    /\ EvaluatorPublished
    /\ dataSet.data = SalesData
    /\ activeFilters = [Signup_Date |-> DateRange("2023-01-01", "2023-06-30")]
    /\ filteredData.rows = << RowRef(SalesData, 1), RowRef(SalesData, 2),
                              RowRef(SalesData, 3), RowRef(SalesData, 7) >>

\* evaluate(D, C) of the specification: the rows of D, in order, that
\* satisfy every constraint of C.
Evaluate(d, constraints) ==
    SelectSeq(DataArray(d),
              LAMBDA r : \A k \in DOMAIN constraints :
                             Satisfied(RowAt(r), k, constraints[k]))

\* C5: filtering is not cumulative.  With no effect scheduled, and whenever
\* the evaluator's result is on display, the rows given to the charts are
\* evaluate(full dataset, current mapping), whatever was published before.
C5_NotCumulative ==
    /\ (Shown /\ Quiescent) => filteredData.rows = Evaluate(dataSet.data, activeFilters)
    /\ EvaluatorPublished => filteredData.rows = Evaluate(dataSet.data, activeFilters)

\* C5 witness: the constraints match no row of a dataset that has rows (the
\* "Reset Filters" button is offered) and the evaluator's result is on
\* display.
C5_Witness ==
    /\ EvaluatorPublished
    /\ DOMAIN activeFilters # {}
    /\ filteredData.rows = << >>
    /\ DataRows(dataSet.data) # << >>

EntryOf(filters, k) == IF k \in DOMAIN filters THEN << filters[k] >> ELSE << >>
BoundsOf(filters, k) == IF k \in DOMAIN filters THEN filters[k] ELSE DateRange("", "")

IsEmptyConstraint(c) ==
    \/ c.t = "string" /\ c.s = ""
    \/ c.t = "object" /\ c.start = "" /\ c.end = ""

\* C6: the mapping never holds an empty constraint; choosing "All" for a
\* column, or emptying both dates, removes the column's entry; and with the
\* mapping empty again the evaluator publishes the full dataset.
C6_NoEmptyConstraint ==
    /\ [](\A k \in DOMAIN activeFilters : ~IsEmptyConstraint(activeFilters[k]))
    /\ []((EvaluatorCurrent /\ DOMAIN activeFilters = {}) =>
              filteredData.rows = DataArray(dataSet.data))
    /\ [][\A column \in DOMAIN activeFilters' :
             /\ ~handleCategoryChange(column, "")
             /\ \A field \in {"start", "end"} :
                   ~ /\ IF field = "start"
                        THEN BoundsOf(activeFilters, column).t = "object"
                             /\ BoundsOf(activeFilters, column).end = ""
                        ELSE BoundsOf(activeFilters, column).t = "object"
                             /\ BoundsOf(activeFilters, column).start = ""
                     /\ handleDateChange(column, field, "")]_vars

\* C6 witness: a constraint was set, the evaluator published its result,
\* and the constraint has been cleared: the mapping is empty while the
\* filtered rows are still on display.
C6_Witness ==
    /\ Shown
    /\ DOMAIN activeFilters = {}
    /\ filteredData.src = "filter"
    /\ "activeFilters" \in applyDeps

\* C7: handleCategoryChange and handleDateChange change the entry of their
\* column only, and handleDateChange on one bound keeps the other bound.
C7_EntriesIndependent ==
    [][\A i \in 1..Len(columns) :
          LET column == columns[i].name
              othersKept ==
                  \A k \in (DOMAIN activeFilters \cup DOMAIN activeFilters') \ {column} :
                      EntryOf(activeFilters', k) = EntryOf(activeFilters, k)
              boundKept(field) ==
                  IF field = "start"
                  THEN BoundsOf(activeFilters', column).end
                          = BoundsOf(activeFilters, column).end
                  ELSE BoundsOf(activeFilters', column).start
                          = BoundsOf(activeFilters, column).start
          IN  IF columns[i].type = "categorical"
              THEN \/ othersKept
                   \/ ~\E value \in Options(columns[i]) \cup {""} :
                          handleCategoryChange(column, value)
              ELSE \A field \in {"start", "end"} :
                      \/ othersKept /\ boundKept(field)
                      \/ ~\E value \in DateInputs \cup {""} :
                             handleDateChange(column, field, value)]_vars

\* C7 witness: a categorical entry and a date entry with both bounds stand
\* side by side.
C7_Witness ==
    /\ Shown
    /\ \E k1, k2 \in DOMAIN activeFilters :
          /\ activeFilters[k1].t = "string"
          /\ activeFilters[k2].t = "object"
          /\ activeFilters[k2].start # "" /\ activeFilters[k2].end # ""

ColumnNames == {columns[i].name : i \in 1..Len(columns)}

\* C8: a dashboard shows nothing of an earlier dataset.  When it is mounted
\* for a dataset the mapping is empty and the published rows are the full
\* dataset; once the classification effect has run the descriptors are those
\* of this dataset; every constraint is on one of its descriptors; and at
\* rest with an empty mapping the published rows are the full dataset.
C8_ReplacementResets ==
    Shown =>
        /\ dataEffects => /\ activeFilters = NoFilters
                          /\ columns = << >>
                          /\ filteredData = DataValue(dataSet.data)
        /\ ~dataEffects => columns = DetectColumns(dataSet.data)
        /\ DOMAIN activeFilters \subseteq ColumnNames
        /\ (Quiescent /\ DOMAIN activeFilters = {}) =>
               filteredData = DataValue(dataSet.data)

\* C8 witness: the dashboard of a second, different dataset is at rest
\* after the first upload had produced a dashboard too.
C8_Witness ==
    /\ Shown /\ Quiescent
    /\ Len(runs) = 2 /\ runs[1].ai = "resolved"
    /\ FileInfo(runs[2].file).content # FileInfo(runs[1].file).content
    /\ columns = DetectColumns(dataSet.data)
    /\ filteredData = DataValue(dataSet.data)

\* C9: within one upload the AI call is issued only once the parse has
\* resolved, and a config is published only once the AI call has resolved;
\* a rejected parse leaves the AI call unissued, and after a failed upload
\* no config is published.
C9_PipelineOrdered ==
    /\ \A r \in 1..Len(runs) :
          /\ runs[r].ai # "none" => runs[r].parse = "resolved"
          /\ runs[r].parse = "rejected" => runs[r].ai = "none"
          /\ runs[r].pc = "ai" => dataSet = ParsedDataSet(runs[r].file)
    /\ analysis.config # Null =>
          \E r \in 1..Len(runs) :
              /\ runs[r].ai = "resolved"
              /\ analysis.config = ConfigFor(FileInfo(runs[r].file).content)
    /\ (runs # << >> /\ runs[Len(runs)].pc = "done" /\ runs[Len(runs)].ai # "resolved")
          => analysis.config = Null

\* C9 witness: one upload failed at the parse, the next went through the
\* parse and the AI call and its config is published.
C9_Witness ==
    /\ Len(runs) = 2
    /\ runs[1].parse = "rejected" /\ runs[1].pc = "done"
    /\ runs[2].ai = "resolved" /\ runs[2].pc = "done"
    /\ analysis.config # Null

\* C10: at most one handleFileSelect is in flight, and isLoading is true
\* while one is.
C10_OneUploadInFlight ==
    /\ Cardinality(InFlight) <= 1
    /\ InFlight # {} => analysis.isLoading

\* C10 witness: a second upload is waiting for the AI call after the first
\* one has finished.
C10_Witness ==
    /\ Len(runs) = 2
    /\ runs[1].pc = "done"
    /\ runs[2].pc = "ai" /\ runs[2].ai = "pending"
    /\ analysis.isLoading

\* A file FileUpload does not recognise: neither its extension nor its type.
Unsupported(file) ==
    /\ FileInfo(file).ext \notin {"csv", "xls", "xlsx"}
    /\ ~FileInfo(file).typeValid

\* C11: selecting an unsupported file sets FileUpload's message and starts
\* no task: no handleFileSelect call is ever made for such a file, and the
\* selection leaves dataSet, analysis (isLoading, error, config) and the
\* dashboard's state as they were.
C11_UnsupportedFileNoTask ==
    /\ [](\A r \in 1..Len(runs) : ~Unsupported(runs[r].file))
    /\ [][\A file \in FileNames :
             (Unsupported(file) /\ validateAndPassFile(file)) =>
                 /\ uploadError' = [message |-> "Please upload a valid CSV or Excel file."]
                 /\ UNCHANGED << dataSet, analysis, runs >>
                 /\ UNCHANGED dashVars]_vars

\* C11 witness: an unsupported file was selected after an upload had
\* failed; the message is shown and the error of the failed upload stands.
C11_Witness ==
    /\ uploadError # Null
    /\ Len(runs) = 1 /\ runs[1].pc = "done"
    /\ analysis.error # Null /\ ~analysis.isLoading
    /\ dataSet = Null

NoDataMessages == {"No data found in CSV file", "No data found in Excel file"}

\* C12: a file that decodes to zero rows never makes the parse resolve; a
\* stored dataset has at least one row and its rowCount is the number of
\* its rows; and once the upload of such a file has failed the dataset is
\* null, isLoading is false and the error is the parser's message.
C12_NoEmptyDataSet ==
    /\ \A r \in 1..Len(runs) :
          DataRows(FileInfo(runs[r].file).content) = << >> => runs[r].parse # "resolved"
    /\ dataSet # Null => /\ dataSet.rowCount >= 1
                         /\ dataSet.rowCount = Len(DataRows(dataSet.data))
    /\ (runs # << >> /\ runs[Len(runs)].pc = "done"
                     /\ runs[Len(runs)].error \in NoDataMessages) =>
          /\ dataSet = Null
          /\ ~analysis.isLoading
          /\ analysis.error = [message |-> runs[Len(runs)].error]

\* C12 witness: a dashboard was shown, then reset, and the upload of an
\* Excel file without rows has failed.
C12_Witness ==
    /\ Len(runs) = 2
    /\ runs[1].ai = "resolved"
    /\ runs[2].pc = "done"
    /\ runs[2].error = "No data found in Excel file"
    /\ dataSet = Null /\ analysis.error # Null

\* C13: whatever makes the AI call fail, it rejects with the one message
\* "Failed to analyze data. Please try again."; once the failure is handled
\* the dataset stored after the parse is gone: dataSet and config are null,
\* isLoading is false, the error is that message and the upload screen is
\* shown.
C13_AIFailureDiscardsDataSet ==
    /\ \A r \in 1..Len(runs) :
          runs[r].ai = "rejected" =>
              runs[r].error = "Failed to analyze data. Please try again."
    /\ (runs # << >> /\ runs[Len(runs)].pc = "done"
                     /\ runs[Len(runs)].ai = "rejected") =>
          /\ dataSet = Null
          /\ analysis = [isLoading |-> FALSE,
                         error |-> [message |-> "Failed to analyze data. Please try again."],
                         config |-> Null]
          /\ ~Shown /\ filteredData = Null

\* C13 witness: after a dashboard was shown and reset, a second file was
\* parsed and stored, its AI call failed and the failure is handled.
C13_Witness ==
    /\ Len(runs) = 2
    /\ runs[1].ai = "resolved"
    /\ runs[2].parse = "resolved" /\ runs[2].ai = "rejected" /\ runs[2].pc = "done"
    /\ dataSet = Null /\ analysis.error # Null /\ ~Shown

\* C14: an export that has set isDownloading clears it again, however the
\* export ends: isDownloading is true only while the export awaits its
\* snapshot, and the step that ends the export clears it.  Starting and
\* ending an export leave the dataset, the constraints, the descriptors,
\* the published rows and the config unchanged.
C14_ExportClearsFlag ==
    /\ isDownloading ~> ~isDownloading
    /\ [](isDownloading => exportPc = "snapshot")
    /\ [][(handleDownloadPDF \/ \E outcome \in ExportOutcomes : ExportSettles(outcome)) =>
             /\ UNCHANGED << dataSet, analysis, activeFilters, columns, filteredData >>
             /\ exportPc = "snapshot" => ~isDownloading']_vars

\* C14 witness: an export is under way on a dashboard that shows filtered
\* rows.
C14_Witness ==
    /\ Shown
    /\ isDownloading /\ exportPc = "snapshot"
    /\ DOMAIN activeFilters # {}
    /\ filteredData.src = "filter" /\ filteredData.rows # << >>

\* C15: handleReset leaves the application as it was initially (dataSet
\* null; isLoading false, error null, config null), with the upload screen
\* shown and no dashboard state left; whenever a dashboard is shown, its
\* dataset and config are those of the latest upload and its published rows
\* and constraints are about that dataset only.
C15_ResetDiscardsDataSet ==
    /\ [][handleReset =>
             /\ dataSet' = Null
             /\ analysis' = InitialAnalysis
             /\ ~Shown'
             /\ filteredData' = Null /\ columns' = << >> /\ activeFilters' = NoFilters
             /\ ~dataEffects' /\ applyDeps' = {} /\ ~isDownloading']_vars
    /\ [](Shown =>
             /\ dataSet = ParsedDataSet(runs[Len(runs)].file)
             /\ analysis.config = ConfigFor(dataSet.data)
             /\ filteredData.of = dataSet.data
             /\ \A i \in 1..Len(filteredData.rows) : filteredData.rows[i].ds = dataSet.data
             /\ DOMAIN activeFilters \subseteq Range(dataSet.headers))

\* C15 witness: a dashboard was shown and reset, a different file was
\* uploaded, and its dashboard shows filtered rows.
C15_Witness ==
    /\ Shown
    /\ Len(runs) = 2
    /\ runs[1].ai = "resolved" /\ runs[2].ai = "resolved" /\ runs[2].pc = "done"
    /\ runs[1].file # runs[2].file
    /\ DOMAIN activeFilters # {}
    /\ filteredData.src = "filter"

\* C16: switching the chart type, clicking a legend entry and hovering a
\* legend entry change the state of the chart and nothing else: the
\* dataset, the config, the constraints, the descriptors, the published
\* rows and the scheduled effects are as before.
C16_ChartActionsLocal ==
    [][\/ UNCHANGED << appVars, filteredData, columns, activeFilters, dataEffects,
                       applyDeps, isDownloading, exportPc >>
       \/ ~ChartStep]_vars

\* C16 witness: filtered rows are shown by a chart whose type was switched,
\* with a hidden series and a hovered legend entry.
C16_Witness ==
    /\ chart # Null
    /\ chart.currentType # ChartConfigOf(dataSet.data).type
    /\ chart.hiddenSeries # {}
    /\ chart.hoveredSeries # Null
    /\ DOMAIN activeFilters # {}
    /\ filteredData.src = "filter"

\* The non-null values of column h in the sample window, in row order, and
\* the distinct ones among them.
SampledValues(rows, h) ==
    LET window == SubSeq(rows, 1, IF Len(rows) < ROW_LIMIT THEN Len(rows) ELSE ROW_LIMIT)
        present == SelectSeq(window, LAMBDA row : h \in DOMAIN row /\ row[h] # JsNull)
    IN  [i \in 1..Len(present) |-> present[i][h]]

DistinctValues(rows, h) == Range(SampledValues(rows, h))

\* A string of more than 5 characters that parses to a timestamp and is
\* not a plain number.
DateLike(v) ==
    /\ v.t = "string"
    /\ StrLen(v.s) > 5
    /\ DateParse(v.s) # NaN
    /\ StringToNumber(v.s) = NaN

DescriptorsOf(h) == SelectSeq(detectedColumns, LAMBDA c : c.name = h)

\* The column has a sampled value and is date-like or has at most
\* MaxCategories distinct sampled values.
Qualifies(rows, h) ==
    /\ SampledValues(rows, h) # << >>
    /\ \/ DateLike(SampledValues(rows, h)[1])
       \/ Cardinality(DistinctValues(rows, h)) <= MaxCategories

HasCategorical(cols, h) == \E c \in Range(cols) : c.name = h /\ c.type = "categorical"

OptionsOf(cols, h) ==
    (CHOOSE c \in Range(cols) : c.name = h /\ c.type = "categorical").options

\* C20: the option list of a categorical column does not depend on the order
\* in which its values appear: classifying the same rows in any other order
\* gives the same ordered option list for every column that is categorical
\* both times, also when the column mixes numbers and strings.
C20_OptionsIndependentOfOrder ==
    (Classified /\ Len(data) <= MaxColumnLen) =>
        \A p \in PermutationsOf(Len(data)) :
            LET rows == Rearranged(data, p) IN
            \A other \in DetectOutcomes(rows, ObjectKeys(rows[1])) :
                \A h \in Range(ColumnOrder) :
                    (HasCategorical(detectedColumns, h) /\ HasCategorical(other, h))
                        => OptionsOf(detectedColumns, h) = OptionsOf(other, h)

NumbersOf(distinct, s) == {v.n : v \in {w \in distinct : w.t = "number" /\ JsString(w) = s}}

OtherOf(distinct, s) == \E v \in distinct : v.t # "number" /\ JsString(v) = s

\* Option a may stand before option b: as two numbers in numeric order, or,
\* when one of them is not a number, in lexicographic order of the strings.
InOrder(distinct, a, b) ==
    \/ \E x \in NumbersOf(distinct, a), y \in NumbersOf(distinct, b) : x <= y
    \/ /\ \/ OtherOf(distinct, a) /\ (OtherOf(distinct, b) \/ NumbersOf(distinct, b) # {})
          \/ OtherOf(distinct, b) /\ NumbersOf(distinct, a) # {}
       /\ LocaleCompare(a, b) <= 0

\* The options are the distinct values as strings, each once, and sorted.
SortedOptionsOf(distinct, options) ==
    /\ Len(options) = Cardinality(distinct)
    /\ Range(options) = {JsString(v) : v \in distinct}
    /\ \A i, j \in 1..Len(options) : i < j => InOrder(distinct, options[i], options[j])

\* C18: a column that has a sampled value and is not date-like gets a
\* categorical descriptor iff it has at most MaxCategories distinct sampled
\* values, and then its options are those distinct values as strings,
\* sorted: numbers in numeric order, everything else in lexicographic order
\* of the string forms.
C18_CategoricalOptionsSorted ==
    Classified =>
        \A h \in Range(ObjectKeys(data[1])) :
            (SampledValues(data, h) # << >> /\ ~DateLike(SampledValues(data, h)[1])) =>
                /\ HasCategorical(detectedColumns, h)
                      <=> Cardinality(DistinctValues(data, h)) <= MaxCategories
                /\ HasCategorical(detectedColumns, h)
                      => SortedOptionsOf(DistinctValues(data, h), OptionsOf(detectedColumns, h))

\* The same for the columns on which the comparator is consistent.
CategoricalOptionsSortedWhenConsistent ==
    Classified =>
        \A h \in Range(ObjectKeys(data[1])) :
            (/\ SampledValues(data, h) # << >>
             /\ ~DateLike(SampledValues(data, h)[1])
             /\ ConsistentComparator(DistinctValues(data, h))) =>
                /\ HasCategorical(detectedColumns, h)
                      <=> Cardinality(DistinctValues(data, h)) <= MaxCategories
                /\ HasCategorical(detectedColumns, h)
                      => SortedOptionsOf(DistinctValues(data, h), OptionsOf(detectedColumns, h))

\* C21: the descriptors depend on the first ROW_LIMIT rows only: every data
\* array with the same rows in the sample window as the classified one is
\* given the same descriptors (names, kinds, options), whatever its later
\* rows hold; and when the effect runs again, on the same array or on one
\* with the same sample window, it leaves the descriptors as they were.
C21_WindowDeterminesDescriptors ==
    /\ [](Classified /\ Len(data) >= ROW_LIMIT =>
            \A other \in WindowInputs :
                SameWindow(other, data) =>
                    DetectWith(sortOrder, other, ObjectKeys(other[1])) = detectedColumns)
    /\ [][(dataEffects /\ ~dataEffects' /\ detectedColumns # << >> /\ SameWindow(data', data))
             => detectedColumns' = detectedColumns]_vars

\* C21 witness: the row after the sample window holds a value of column A
\* that the window does not hold; the options of A are those of the window.
C21_Witness ==
    /\ Classified
    /\ Len(data) = ROW_LIMIT + 1
    /\ "A" \in DOMAIN data[1] /\ data[1].A = Str("Europe")
    /\ "A" \in DOMAIN data[Len(data)] /\ data[Len(data)].A = Str("5")
    /\ HasCategorical(detectedColumns, "A")
    /\ OptionsOf(detectedColumns, "A") = << "Europe" >>

\* The apply-filters effect runs in this step.
EvaluatorRuns == applyDeps # {} /\ FlushEffects

C23_FilteringQuiesces ==
    <>[][FlushEffects]_vars => <>[]Quiescent

\* C24: the application is never half-loaded at rest.  While isLoading is
\* false the dataset is non-null exactly when the config is non-null; while
\* the error is non-null the dataset and the config are null and isLoading
\* is false; a dataset without a config is there only while a call of
\* handleFileSelect awaits the AI or the handling of its outcome.
C24_NeverHalfLoaded ==
    /\ ~analysis.isLoading => ((dataSet # Null) <=> (analysis.config # Null))
    /\ analysis.error # Null =>
          dataSet = Null /\ analysis.config = Null /\ ~analysis.isLoading
    /\ (dataSet # Null /\ analysis.config = Null) =>
          /\ analysis.isLoading
          /\ \E r \in InFlight : runs[r].pc = "ai"

\* C24 witness: at rest with an error after a parse stored its dataset and
\* the AI call failed, in an application that had a dataset without a
\* config while that call was in flight.
C24_Witness ==
    /\ ~analysis.isLoading /\ analysis.error # Null
    /\ InFlight = {}
    /\ \E r \in 1..Len(runs) : runs[r].parse = "resolved" /\ runs[r].ai = "rejected"

\* C25: whenever the dashboard is displayed, its config was generated from
\* its dataset and both are those of one upload, the latest, which has
\* completed; and every continuation of handleFileSelect that runs (after
\* the parse, after the AI call, the catch block) belongs to the latest
\* upload, the only one in flight, so no completion or failure of an
\* earlier upload overwrites or clears the state of a later one.
C25_ConfigOfDisplayedDataSet ==
    /\ [](Shown =>
             LET last == runs[Len(runs)] IN
             /\ last.pc = "done" /\ last.parse = "resolved" /\ last.ai = "resolved"
             /\ dataSet = ParsedDataSet(last.file)
             /\ analysis.config = ConfigFor(ParsedDataSet(last.file).data)
             /\ InFlight = {})
    /\ [][\A r \in 1..Len(runs) :
             runs'[r].pc # runs[r].pc => r = Len(runs') /\ InFlight = {r}]_vars

\* C25 witness: the dashboard of a second upload, of another file than the
\* first, whose dashboard was shown before.
C25_Witness ==
    /\ Shown
    /\ Len(runs) = 2
    /\ runs[1].file # runs[2].file
    /\ runs[1].pc = "done" /\ runs[1].ai = "resolved"
    /\ dataSet.fileName = runs[2].file

\* C26: the option list of every categorical descriptor contains no string
\* twice, also for a column whose sampled values have different types and
\* the same string form.
C26_OptionsHaveNoDuplicates ==
    Classified =>
        \A i \in 1..Len(detectedColumns) :
            detectedColumns[i].type = "categorical" =>
                LET options == detectedColumns[i].options IN
                \A j, k \in 1..Len(options) : j # k => options[j] # options[k]

\* The rows the apply-filters effect publishes for the mapping m.
Published(m) == ApplyFilters(dataSet.data, m, filteredData.rows).rows

\* The mappings made of some of the entries of filters.
SubMappings(filters) == {[k \in S |-> filters[k]] : S \in SUBSET DOMAIN filters}

\* a is a subsequence of b (both in the order of the dataset).
RowsWithin(a, b) ==
    /\ \A i \in 1..Len(a) : \E j \in 1..Len(b) : b[j] = a[i]
    /\ \A i, j \in 1..Len(a) : i < j => a[i].i < a[j].i

\* What the control of a descriptor can hand to its handler.
ControlInputs(col) ==
    IF col.type = "categorical"
    THEN {[column |-> col.name, field |-> "category", value |-> v] : v \in Options(col)}
    ELSE {[column |-> col.name, field |-> f, value |-> v] :
             f \in {"start", "end"}, v \in DateInputs}

\* The mapping the handler of the control stores for that input.
UpdateOf(m, input) ==
    IF input.field = "category" THEN CategoryUpdate(m, input.column, input.value)
    ELSE DateUpdate(m, input.column, input.field, input.value)

\* The range to is within the range from ("" is no bound).
Tightened(from, to) ==
    /\ from.start # "" =>
          to.start # "" /\ DateParse(to.start) >= DateParse(from.start)
    /\ from.end # "" =>
          to.end # "" /\ DateParse(to.end) <= DateParse(from.end)

\* C27: a constraint more never enlarges the result, nor does a tighter
\* date range: the rows on display are a subsequence of what the evaluator
\* publishes for any part of the current mapping, and what it publishes
\* once a control adds a constraint, or narrows one, is a subsequence of
\* what it publishes now.  The order in which the controls of two
\* different columns are used does not matter: either order stores the
\* same mapping and publishes the same rows.
C27_ConstraintsOnlyNarrow ==
    Shown =>
        /\ EvaluatorPublished =>
              \A C \in SubMappings(activeFilters) :
                  RowsWithin(filteredData.rows, Published(C))
        /\ \A c \in Range(columns) : \A input \in ControlInputs(c) :
              LET next == UpdateOf(activeFilters, input) IN
              (\/ c.name \notin DOMAIN activeFilters
               \/ /\ c.type = "date"
                  /\ Tightened(activeFilters[c.name], next[c.name]))
                  => RowsWithin(Published(next), Published(activeFilters))
        /\ \A c1, c2 \in Range(columns) :
              c1.name # c2.name =>
                  \A in1 \in ControlInputs(c1), in2 \in ControlInputs(c2) :
                      LET oneTwo == UpdateOf(UpdateOf(activeFilters, in1), in2)
                          twoOne == UpdateOf(UpdateOf(activeFilters, in2), in1)
                      IN  oneTwo = twoOne /\ Published(oneTwo) = Published(twoOne)

\* C27 witness: the result of two constraints is on display, it has rows,
\* and each constraint alone keeps more rows than the two together.
C27_Witness ==
    /\ EvaluatorPublished
    /\ Cardinality(DOMAIN activeFilters) = 2
    /\ filteredData.rows # << >>
    /\ \A k \in DOMAIN activeFilters :
          Len(Published(DeleteKey(activeFilters, k))) > Len(filteredData.rows)

====
